---- MODULE Spec2Model ----
(***************************************************************************)
(* A model of src/App.py, the "Git Project Dashboard": the VCS probe       *)
(* (get_git_info), the directory lister (scan_top_level), the table of     *)
(* rows (data_table.rows) and the two handlers that fill it from worker    *)
(* threads (scan_projects, rescan_folder).                                 *)
(*                                                                         *)
(* Text is a sequence of tokens; a path is the sequence of its components, *)
(* so os.path.join appends a component and os.path.basename is the last    *)
(* one.  A value that may be Python's None is a record [none, s].          *)
(***************************************************************************)
EXTENDS Integers, Sequences, FiniteSets, TLC

\* ------------------------------------------------------------------ bounds

\* Worker threads started in one behaviour (threading.Thread(...).start()).
MaxThreads == 3

\* Worker threads running at the same time.
MaxActive == 2

\* Entries of a directory listing handed to the lister on its own.
MaxList == 3

\* ------------------------------------------------------- Python primitives

PyNone == [none |-> TRUE, s |-> <<>>]
PyStr(s) == [none |-> FALSE, s |-> s]

\* `not v` / the left operand of `v or d` for v a str or None.
Falsy(v) == v.none \/ v.s = <<>>

\* `v or d`, d a str.
PyOr(v, d) == IF Falsy(v) THEN d ELSE v.s

Whitespace == {" ", "\n"}

RECURSIVE lstrip(_)
lstrip(s) ==
    IF s # <<>> /\ Head(s) \in Whitespace THEN lstrip(Tail(s)) ELSE s

RECURSIVE rstrip(_)
rstrip(s) ==
    IF s # <<>> /\ s[Len(s)] \in Whitespace
    THEN rstrip(SubSeq(s, 1, Len(s) - 1))
    ELSE s

\* str.strip()
strip(s) == rstrip(lstrip(s))

\* os.path.join(path, f) and os.path.basename(path), on component sequences.
join(path, f) == Append(path, f)
basename(path) == IF path = <<>> THEN "" ELSE path[Len(path)]

\* The outcome of a call that may raise.
Raised == [exc |-> TRUE, val |-> <<>>]
Returned(v) == [exc |-> FALSE, val |-> v]

\* list.insert(i, x): i is the number of elements left before x, clamped to
\* the length of the list.
ListInsert(l, i, x) ==
    LET n == IF i > Len(l) THEN Len(l) ELSE i
    IN  SubSeq(l, 1, n) \o <<x>> \o SubSeq(l, n + 1, Len(l))

\* list.index(x) on the keys of the list: the 0-based position of the first
\* element whose key is k; the caller checks membership first (ValueError).
RECURSIVE IndexOf(_, _)
IndexOf(ids, k) ==
    IF ids = <<>> THEN 0
    ELSE IF Head(ids) = k THEN 0
    ELSE 1 + IndexOf(Tail(ids), k)

\* --------------------------------------------------------------- VCS probe

\* The sentinel the probe substitutes for a missing branch or remote (the
\* em dash of the source, written in ASCII).
Dash == <<"-">>

\* What the external tool does in one directory: has_git is whether the
\* ".git" entry exists; branch, remote, status, log are the raw stdout of
\* the four git commands, or PyNone when check_output raises.
GitOutcome(has_git, branch, remote, status, log) ==
    [has_git |-> has_git, branch |-> branch, remote |-> remote,
     status |-> status, log |-> log]

\* The inner helper git(cmd): stdout decoded and stripped, None on any error.
git(raw) == IF raw.none THEN PyNone ELSE PyStr(strip(raw.s))

get_git_info_defaults(path, G) ==
    LET branch == git(G[path].branch)
        remote == git(G[path].remote)
        status == git(G[path].status)
        dirty == IF Falsy(status) THEN "Clean" ELSE "Dirty"
    IN  [path |-> path, is_git |-> G[path].has_git,
         branch |-> PyOr(branch, Dash), remote |-> PyOr(remote, Dash),
         dirty |-> dirty]

\* get_git_info(path); G maps a directory to its GitOutcome.
get_git_info(path, G) ==
    IF ~G[path].has_git
    THEN [path |-> path, is_git |-> FALSE]
    ELSE LET branch == git(G[path].branch)
             remote == git(G[path].remote)
             status == git(G[path].status)
             log == git(G[path].log)
             dirty == IF Falsy(status) THEN "Clean" ELSE "Dirty"
         IN  [path |-> path, is_git |-> TRUE,
              branch |-> PyOr(branch, Dash), remote |-> PyOr(remote, Dash),
              dirty |-> dirty]

\* --------------------------------------------------------- directory lister

\* A file system F: F.ls maps a listable directory to os.listdir's result (a
\* sequence of names), F.dirs is the set of paths os.path.isdir accepts,
\* F.files the other existing paths.
listdir(F, path) ==
    IF path \in DOMAIN F.ls THEN Returned(F.ls[path]) ELSE Raised

isdir(F, path) == path \in F.dirs

exists(F, path) == path \in F.dirs \/ path \in F.files

RECURSIVE comprehension(_, _, _, _)
comprehension(names, path, F, G) ==
    IF names = <<>> THEN <<>>
    ELSE LET f == Head(names)
             rest == comprehension(Tail(names), path, F, G)
         IN  IF isdir(F, join(path, f))
             THEN <<get_git_info(join(path, f), G)>> \o rest
             ELSE rest

RECURSIVE comprehension_nofilter(_, _, _, _)
comprehension_nofilter(names, path, F, G) ==
    IF names = <<>> THEN <<>>
    ELSE <<get_git_info(join(path, Head(names)), G)>>
         \o comprehension_nofilter(Tail(names), path, F, G)

scan_top_level_nofilter(path, F, G) ==
    LET l == listdir(F, path)
    IN  IF l.exc THEN Raised
        ELSE Returned(comprehension_nofilter(l.val, path, F, G))

\* scan_top_level(path): raises when os.listdir does.
scan_top_level(path, F, G) ==
    LET l == listdir(F, path)
    IN  IF l.exc THEN Raised ELSE Returned(comprehension(l.val, path, F, G))

\* ------------------------------------------------------------- environment

\* The directories on disk: w holds the directory a and the file f, a holds
\* x, x holds z.  The disk changes once under the running program (FsChange):
\* x is deleted with all it holds and a gets the new directory k.
W == <<"w">>
FsBefore ==
    [ls |-> (W :> <<"a", "f">>) @@ (<<"w", "a">> :> <<"x">>)
            @@ (<<"w", "a", "x">> :> <<"z">>)
            @@ (<<"w", "a", "x", "z">> :> <<>>),
     dirs |-> {W, <<"w", "a">>, <<"w", "a", "x">>, <<"w", "a", "x", "z">>},
     files |-> {<<"w", "f">>}]
FsAfter ==
    [ls |-> (W :> <<"a", "f">>) @@ (<<"w", "a">> :> <<"k">>)
            @@ (<<"w", "a", "k">> :> <<>>),
     dirs |-> {W, <<"w", "a">>, <<"w", "a", "k">>},
     files |-> {<<"w", "f">>}]
\* Another disk: w holds the directories a and b and the file f, a holds x, b
\* holds y.  It changes once as well: b is deleted with all it holds.
FsWide ==
    [ls |-> (W :> <<"a", "b", "f">>) @@ (<<"w", "a">> :> <<"x">>)
            @@ (<<"w", "b">> :> <<"y">>)
            @@ (<<"w", "a", "x">> :> <<>>) @@ (<<"w", "b", "y">> :> <<>>),
     dirs |-> {W, <<"w", "a">>, <<"w", "b">>, <<"w", "a", "x">>,
               <<"w", "b", "y">>},
     files |-> {<<"w", "f">>}]
FsWideAfter ==
    [ls |-> (W :> <<"a", "f">>) @@ (<<"w", "a">> :> <<"x">>)
            @@ (<<"w", "a", "x">> :> <<>>),
     dirs |-> {W, <<"w", "a">>, <<"w", "a", "x">>},
     files |-> {<<"w", "f">>}]
FS(g) ==
    CASE g = 0 -> FsBefore
      [] g = 1 -> FsAfter
      [] g = 2 -> FsWide
      [] OTHER -> FsWideAfter

\* What git answers in each directory: a is a clean repository on main with
\* a remote, x holds no ".git", z is a repository without remote whose status
\* and log queries fail, k is a repository with an untracked file, b and y
\* hold no ".git".
NoGit == GitOutcome(FALSE, PyNone, PyNone, PyNone, PyNone)
GitWorld ==
    (<<"w", "a">> :> GitOutcome(TRUE, PyStr(<<"main", "\n">>),
                                PyStr(<<"git@host:org/a.git", "\n">>),
                                PyStr(<<>>), PyStr(<<"date", "\n">>)))
    @@ (<<"w", "a", "x">> :> NoGit)
    @@ (<<"w", "a", "x", "z">> :> GitOutcome(TRUE, PyStr(<<"dev", "\n">>),
                                             PyNone, PyNone, PyNone))
    @@ (<<"w", "a", "k">> :> GitOutcome(TRUE, PyStr(<<"main", "\n">>), PyNone,
                                        PyStr(<<"??", " ", "n", "\n">>),
                                        PyStr(<<"date", "\n">>)))
    @@ (<<"w", "b">> :> NoGit)
    @@ (<<"w", "b", "y">> :> NoGit)

\* What the operator may type into the root field: an existing directory
\* (after a blank), a missing path, a file.
RootInputs == {<<" ", "w">>, <<"nx">>, <<"w", "f">>}

\* ------------------------------------------------------------------- state

VARIABLES
    gen,       \* which file system is on disk (0: FsBefore, 1: FsAfter,
               \* 2: FsWide, 3: FsWideAfter)
    rows,      \* data_table.rows
    shown,     \* ids of the rows the client displays (as of the last page.update())
    progress,  \* progress.visible
    status,    \* status.value
    th,        \* the worker threads, by number
    nth,       \* threads started so far
    call       \* the last call of the probe or the lister made on its own

vars == <<gen, rows, shown, progress, status, th, nth, call>>

Threads == 1..MaxThreads

\* FolderRow(info, level, rescan_callback); id is the object's identity: the
\* thread that made it and the position of info in that thread's listing.
FolderRow(info, level, id) == [id |-> id, info |-> info, level |-> level]

RowIds(rs) == {rs[i].id : i \in 1..Len(rs)}
IdSeq(rs) == [i \in 1..Len(rs) |-> rs[i].id]

\* A worker thread: which task it runs (kind), where it is in it (pc), the
\* task's closure (path: root or info["path"]; row: row_obj) and locals
\* (subfolders/folders, insert_index, the loop position k), the exception it
\* died of (exc).  Kept beside them for the properties: the notifications it
\* has delivered (ev), whether it was requested during another rescan of its
\* row (overlap) and whether a seed came while it ran (superseded).
NoThread ==
    [kind |-> "none", pc |-> "idle", path |-> <<>>, row |-> <<>>,
     subfolders |-> <<>>, insert_index |-> 0, k |-> 0, ev |-> <<>>,
     exc |-> "", overlap |-> FALSE, superseded |-> FALSE]

Active(t) == th[t].pc \notin {"idle", "done", "dead"}

\* The model's cap on threading.Thread(...).start().
MayStart ==
    /\ nth < MaxThreads
    /\ Cardinality({t \in Threads : Active(t)}) < MaxActive

\* The info captured by the buttons of the row with this id.
InfoOf(id) == th[id[1]].subfolders[id[2]]

NoCall == [op |-> "none"]

Init ==
    /\ gen = 0
    /\ rows = <<>>
    /\ shown = {}
    /\ progress = FALSE
    /\ status = <<"">>
    /\ th = [t \in Threads |-> NoThread]
    /\ nth = 0
    /\ call = NoCall

\* ---------------------------------------------------------------- handlers

\* scan_projects that starts its thread before it looks at the root.
scan_projects_spawn_first(text) ==
    LET root == strip(text)
    IN  /\ rows' = <<>>
        /\ MayStart
        /\ nth' = nth + 1
        /\ th' = [th EXCEPT ![nth + 1] =
                    [NoThread EXCEPT !.kind = "seed", !.pc = "start",
                                     !.path = root]]
        /\ IF ~exists(FS(gen), root)
           THEN status' = <<"Path not found">> /\ shown' = {}
           ELSE UNCHANGED <<status, shown>>
        /\ UNCHANGED <<gen, progress, call>>

\* scan_projects(e), the "Scan Projects" button, with text in the root field.
\* A rescan in flight at that moment is marked superseded.
scan_projects(text) ==
    LET root == strip(text)
        marked == [t \in Threads |->
                     IF th[t].kind = "rescan" /\ Active(t)
                     THEN [th[t] EXCEPT !.superseded = TRUE]
                     ELSE th[t]]
    IN  /\ rows' = <<>>
        /\ IF ~exists(FS(gen), root)
           THEN /\ status' = <<"Path not found">>
                /\ shown' = {}
                /\ th' = marked
                /\ UNCHANGED <<nth>>
           ELSE /\ MayStart
                /\ nth' = nth + 1
                /\ th' = [marked EXCEPT ![nth + 1] =
                            [NoThread EXCEPT !.kind = "seed", !.pc = "start",
                                             !.path = root]]
                /\ UNCHANGED <<status, shown>>
        /\ UNCHANGED <<gen, progress, call>>

\* rescan_folder that lists the folder itself, before it starts the thread.
rescan_folder_inline(id) ==
    /\ id \in shown
    /\ MayStart
    /\ nth' = nth + 1
    /\ LET r == scan_top_level(InfoOf(id).path, FS(gen), GitWorld)
       IN  th' = [th EXCEPT ![nth + 1] =
                    [NoThread EXCEPT
                       !.kind = "rescan", !.path = InfoOf(id).path, !.row = id,
                       !.pc = IF r.exc THEN "dead" ELSE "index",
                       !.subfolders = IF r.exc THEN <<>> ELSE r.val]]
    /\ UNCHANGED <<gen, rows, shown, progress, status, call>>

\* rescan_folder(info, row_obj), the arrow or the refresh button of a
\* displayed row.
\* A rescan requested while another of the same row is in flight is marked
\* overlap.
rescan_folder(id) ==
    /\ id \in shown
    /\ MayStart
    /\ nth' = nth + 1
    /\ th' = [th EXCEPT ![nth + 1] =
                [NoThread EXCEPT
                   !.kind = "rescan", !.pc = "start",
                   !.path = InfoOf(id).path, !.row = id,
                   !.overlap = \E u \in Threads :
                                  /\ th[u].kind = "rescan"
                                  /\ th[u].row = id
                                  /\ Active(u)]]
    /\ UNCHANGED <<gen, rows, shown, progress, status, call>>

\* ------------------------------------------------------------ worker tasks

\* page.update(): the client now displays the rows of the table.
PageUpdate(rs) == shown' = RowIds(rs)

\* A task that shows the progress bar without announcing its start.
TaskStart_quiet(t, kind, text) ==
    /\ th[t].kind = kind
    /\ th[t].pc = "start"
    /\ progress' = TRUE
    /\ th' = [th EXCEPT ![t].pc = "list"]
    /\ UNCHANGED <<gen, rows, shown, status, nth, call>>

\* Both tasks begin alike, apart from the text: progress.visible = True,
\* status.value = ..., page.update().
TaskStart(t, kind, text) ==
    /\ th[t].kind = kind
    /\ th[t].pc = "start"
    /\ progress' = TRUE
    /\ status' = text
    /\ PageUpdate(rows)
    /\ th' = [th EXCEPT ![t].pc = "list",
                        ![t].ev = Append(@, "Started")]
    /\ UNCHANGED <<gen, rows, nth, call>>

\* ... and end alike: progress.visible = False, status.value = ...,
\* page.update().
TaskFinish(t, kind, text) ==
    /\ th[t].kind = kind
    /\ th[t].pc = "finish"
    /\ progress' = FALSE
    /\ status' = text
    /\ PageUpdate(rows)
    /\ th' = [th EXCEPT ![t].pc = "done",
                        ![t].ev = Append(@, "Completed")]
    /\ UNCHANGED <<gen, rows, nth, call>>

\* A listing whose exception ends every thread in flight, not only its own.
TaskList_abort_all(t, kind, next) ==
    /\ th[t].kind = kind
    /\ th[t].pc = "list"
    /\ LET r == scan_top_level(th[t].path, FS(gen), GitWorld)
       IN  IF r.exc
           THEN th' = [u \in Threads |->
                         IF u = t
                         THEN [th[u] EXCEPT !.pc = "dead", !.exc = "OSError"]
                         ELSE IF Active(u)
                              THEN [th[u] EXCEPT !.pc = "dead", !.k = 0,
                                                 !.insert_index = 0]
                              ELSE th[u]]
           ELSE th' = [th EXCEPT ![t].pc = next, ![t].subfolders = r.val,
                                 ![t].k = 1]
    /\ UNCHANGED <<gen, rows, shown, progress, status, nth, call>>

\* subfolders = scan_top_level(path): the thread dies of the uncaught
\* exception when the listing raises.
TaskList(t, kind, next) ==
    /\ th[t].kind = kind
    /\ th[t].pc = "list"
    /\ LET r == scan_top_level(th[t].path, FS(gen), GitWorld)
       IN  th' = [th EXCEPT
                    ![t].pc = IF r.exc THEN "dead" ELSE next,
                    ![t].exc = IF r.exc THEN "OSError" ELSE "",
                    ![t].subfolders = r.val,
                    ![t].k = IF r.exc THEN 0 ELSE 1]
    /\ UNCHANGED <<gen, rows, shown, progress, status, nth, call>>

rescan_folder_task_start(t) ==
    TaskStart(t, "rescan", <<"Rescanning", basename(th[t].path)>>)

rescan_folder_task_scan(t) == TaskList(t, "rescan", "index")

\* insert_index = data_table.rows.index(row_obj) + 1: ValueError, uncaught,
\* when the row is no longer in the table.
rescan_folder_task_index(t) ==
    /\ th[t].kind = "rescan"
    /\ th[t].pc = "index"
    /\ th' = [th EXCEPT
                ![t].pc = IF th[t].row \notin RowIds(rows) THEN "dead"
                          ELSE IF th[t].subfolders = <<>> THEN "finish"
                          ELSE "insert",
                ![t].exc = IF th[t].row \notin RowIds(rows) THEN "ValueError"
                           ELSE "",
                ![t].k = IF th[t].row \notin RowIds(rows)
                            \/ th[t].subfolders = <<>> THEN 0 ELSE 1,
                ![t].insert_index =
                    IF th[t].row \notin RowIds(rows)
                       \/ th[t].subfolders = <<>> THEN 0
                    ELSE IndexOf(IdSeq(rows), th[t].row) + 1]
    /\ UNCHANGED <<gen, rows, shown, progress, status, nth, call>>

\* The level the task gives every row it makes.
rescan_level(t) == 1

\* data_table.rows.insert(insert_index, new_row)
rescan_insert(t, new_row) == ListInsert(rows, th[t].insert_index, new_row)

\* One turn of the loop over subfolders; the loop's variables are gone after
\* its last turn.
rescan_folder_task_insert(t) ==
    /\ th[t].kind = "rescan"
    /\ th[t].pc = "insert"
    /\ LET new_row == FolderRow(th[t].subfolders[th[t].k], rescan_level(t),
                                <<t, th[t].k>>)
       IN  rows' = rescan_insert(t, new_row)
    /\ LET last == th[t].k = Len(th[t].subfolders)
       IN
       th' = [th EXCEPT
                ![t].insert_index = IF last THEN 0 ELSE @ + 1,
                ![t].k = IF last THEN 0 ELSE @ + 1,
                ![t].pc = IF last THEN "finish" ELSE "insert"]
    /\ UNCHANGED <<gen, shown, progress, status, nth, call>>

rescan_folder_task_finish(t) ==
    TaskFinish(t, "rescan", <<"Finished", basename(th[t].path)>>)

scan_projects_task_start(t) ==
    TaskStart(t, "seed", <<"Scanning top-level projects...">>)

scan_projects_task_scan(t) == TaskList(t, "seed", "append")

\* One turn of the loop over folders: data_table.rows.append(FolderRow(...)).
scan_projects_task_append(t) ==
    /\ th[t].kind = "seed"
    /\ th[t].pc = "append"
    /\ IF th[t].k > Len(th[t].subfolders)
       THEN /\ th' = [th EXCEPT ![t].pc = "finish", ![t].k = 0]
            /\ UNCHANGED rows
       ELSE /\ rows' = Append(rows, FolderRow(th[t].subfolders[th[t].k], 0,
                                              <<t, th[t].k>>))
            /\ LET last == th[t].k = Len(th[t].subfolders)
               IN  th' = [th EXCEPT
                            ![t].k = IF last THEN 0 ELSE @ + 1,
                            ![t].pc = IF last THEN "finish" ELSE "append"]
    /\ UNCHANGED <<gen, shown, progress, status, nth, call>>

scan_projects_task_finish(t) ==
    TaskFinish(t, "seed", <<"Scan complete">>)

\* The disk changes under the program.
FsChange ==
    /\ gen \in {0, 2}
    /\ gen' = gen + 1
    /\ UNCHANGED <<rows, shown, progress, status, th, nth, call>>

Next ==
    \/ \E text \in RootInputs : scan_projects(text)
    \/ \E id \in shown : rescan_folder(id)
    \/ \E t \in Threads : scan_projects_task_start(t)
    \/ \E t \in Threads : scan_projects_task_scan(t)
    \/ \E t \in Threads : scan_projects_task_append(t)
    \/ \E t \in Threads : scan_projects_task_finish(t)
    \/ \E t \in Threads : rescan_folder_task_start(t)
    \/ \E t \in Threads : rescan_folder_task_scan(t)
    \/ \E t \in Threads : rescan_folder_task_index(t)
    \/ \E t \in Threads : rescan_folder_task_insert(t)
    \/ \E t \in Threads : rescan_folder_task_finish(t)
    \/ FsChange

Spec == Init /\ [][Next]_vars

\* ------------------------------------------------- two top-level folders

\* The program started on the disk with the two directories a and b.
InitWide ==
    /\ gen = 2
    /\ rows = <<>>
    /\ shown = {}
    /\ progress = FALSE
    /\ status = <<"">>
    /\ th = [t \in Threads |-> NoThread]
    /\ nth = 0
    /\ call = NoCall

SpecWide == InitWide /\ [][Next]_vars

\* ------------------------------------------- seeds on existing roots only

\* The behaviours in which the operator only presses "Scan Projects", with a
\* root that exists.
NextSeeds ==
    \/ \E text \in RootInputs :
           exists(FS(gen), strip(text)) /\ scan_projects(text)
    \/ \E t \in Threads : scan_projects_task_start(t)
    \/ \E t \in Threads : scan_projects_task_scan(t)
    \/ \E t \in Threads : scan_projects_task_append(t)
    \/ \E t \in Threads : scan_projects_task_finish(t)
    \/ FsChange

SpecSeeds == Init /\ [][NextSeeds]_vars

\* --------------------------------------- the probe and the lister on their own

\* The directory the probe or the lister is called on.
P == <<"p">>

\* Raw stdout of a git command, or PyNone for a failed one.
RawOutputs ==
    {PyNone, PyStr(<<>>), PyStr(<<"\n">>), PyStr(<<"main", "\n">>),
     PyStr(<<" ", "M", " ", "f", "\n">>)}

GitOutcomes ==
    {GitOutcome(g, b, r, s, l) :
        g \in BOOLEAN, b \in {PyNone, PyStr(<<>>), PyStr(<<"main", "\n">>)},
        r \in {PyNone, PyStr(<<"url", "\n">>)}, s \in RawOutputs,
        l \in {PyNone, PyStr(<<"date", "\n">>)}}

\* A directory to list: whether os.listdir succeeds, and its entries in
\* os.listdir's order, each a file, a plain directory or a repository.
EntryNames == {"a", "b", "c", "f"}
EntryKinds == {"file", "dir", "repo"}
Listings ==
    {[ok |-> ok, entries |-> e] :
        ok \in BOOLEAN,
        e \in {x \in UNION {[1..n -> [name : EntryNames, kind : EntryKinds]] :
                              n \in 0..MaxList} :
                 \A i, j \in 1..Len(x) : x[i].name = x[j].name => i = j}}

CleanRepo ==
    GitOutcome(TRUE, PyStr(<<"main", "\n">>), PyStr(<<"url", "\n">>),
               PyStr(<<>>), PyStr(<<"date", "\n">>))

\* The file system and the git answers a listing stands for.
ListingFS(l) ==
    [ls |-> IF l.ok THEN (P :> [i \in 1..Len(l.entries) |-> l.entries[i].name])
            ELSE [x \in {} |-> <<>>],
     dirs |-> {join(P, l.entries[i].name) :
                 i \in {j \in 1..Len(l.entries) : l.entries[j].kind # "file"}},
     files |-> {join(P, l.entries[i].name) :
                  i \in {j \in 1..Len(l.entries) : l.entries[j].kind = "file"}}]
ListingGit(l) ==
    [q \in {join(P, l.entries[i].name) : i \in 1..Len(l.entries)} |->
        LET i == CHOOSE j \in 1..Len(l.entries) : join(P, l.entries[j].name) = q
        IN  IF l.entries[i].kind = "repo" THEN CleanRepo ELSE NoGit]

InitFn ==
    /\ gen = 0
    /\ rows = <<>>
    /\ shown = {}
    /\ progress = FALSE
    /\ status = <<"">>
    /\ th = [t \in Threads |-> NoThread]
    /\ nth = 0
    /\ call \in {[op |-> "probe", done |-> FALSE, arg |-> g, out |-> <<>>] :
                    g \in GitOutcomes}
                \cup {[op |-> "list", done |-> FALSE, arg |-> l, out |-> <<>>] :
                        l \in Listings}

\* get_git_info(P) in a directory where git answers call.arg.
CallProbe ==
    /\ call.op = "probe"
    /\ ~call.done
    /\ call' = [call EXCEPT !.done = TRUE,
                            !.out = get_git_info(P, (P :> call.arg))]
    /\ UNCHANGED <<gen, rows, shown, progress, status, th, nth>>

\* scan_top_level(P) on the directory call.arg.
CallList ==
    /\ call.op = "list"
    /\ ~call.done
    /\ call' = [call EXCEPT
                  !.done = TRUE,
                  !.out = scan_top_level(P, ListingFS(call.arg),
                                         ListingGit(call.arg))]
    /\ UNCHANGED <<gen, rows, shown, progress, status, th, nth>>

NextFn == CallProbe \/ CallList

SpecFn == InitFn /\ [][NextFn]_vars

\* ------------------------------------------------------------------ claims

\* The thread has called scan_top_level.
Listed(t) == th[t].pc \notin {"idle", "start", "list"}

\* C1: a rescan of a row requested while an earlier rescan of the same row
\* is in flight never starts a directory listing of its own.
ExpandCoalesced == \A t \in Threads : th[t].overlap => ~Listed(t)

\* The rows made by rescans of the row id, in table order.
ChildIds(id) ==
    LET IsChild(r) == th[r.id[1]].kind = "rescan" /\ th[r.id[1]].row = id
    IN  IdSeq(SelectSeq(rows, IsChild))

\* C2: once the latest rescan of an already expanded row, requested with no
\* other rescan of that row in flight, has completed and nothing else is in
\* flight, the rows made by rescans of that row are the rows of the latest
\* listing, each once, in order.
ReexpandReplaces ==
    \A t \in Threads :
        ( /\ th[t].kind = "rescan"
          /\ th[t].pc = "done"
          /\ ~th[t].overlap
          /\ th[t].row \in RowIds(rows)
          /\ \A u \in Threads : ~Active(u)
          /\ \A u \in Threads :
                 (th[u].kind = "rescan" /\ th[u].row = th[t].row) => u <= t
          /\ \E u \in Threads :
                 u < t /\ th[u].kind = "rescan" /\ th[u].row = th[t].row
                 /\ th[u].pc = "done" )
        => ChildIds(th[t].row) = [k \in 1..Len(th[t].subfolders) |-> <<t, k>>]

\* C3: a "Scan Projects" on a root that does not exist leaves the rows of
\* the table as they were.
SeedFailureKeepsTree ==
    [][(\E text \in RootInputs :
            ~exists(FS(gen), strip(text)) /\ scan_projects(text))
       => rows' = rows]_vars

\* C4: when only seeds on existing roots are requested, every worker has
\* ended and the latest seed's worker has completed, the table holds exactly
\* the rows of the latest seed's listing, each once, in listing order.
SeedReplacesTree ==
    (nth > 0 /\ th[nth].pc = "done" /\ \A t \in Threads : ~Active(t))
    => rows = [k \in 1..Len(th[nth].subfolders) |->
                 FolderRow(th[nth].subfolders[k], 0, <<nth, k>>)]

\* C5: a rescan that a seed superseded leaves no row of its own in the table
\* and does not end with the error of a row that is gone.
SupersededExpandHarmless ==
    \A t \in Threads :
        th[t].superseded =>
            /\ th[t].exc # "ValueError"
            /\ \A i \in 1..Len(rows) : rows[i].id[1] # t

\* C6: a worker that has ended has delivered Started and then exactly one
\* terminal event, which is Failed when its listing raised.
ListErrorSurfaced ==
    \A t \in Threads :
        th[t].pc \in {"done", "dead"} =>
            /\ Len(th[t].ev) = 2
            /\ th[t].ev[1] = "Started"
            /\ th[t].ev[2] \in {"Completed", "Failed"}
            /\ th[t].exc = "OSError" => th[t].ev[2] = "Failed"

\* C7: every terminal event a worker delivers comes after the Started of the
\* same worker, and Started is the first event of a worker.
StartedBeforeTerminal ==
    \A t \in Threads :
        \A i \in 1..Len(th[t].ev) :
            /\ th[t].ev[i] \in {"Completed", "Failed"} =>
                   \E j \in 1..(i - 1) : th[t].ev[j] = "Started"
            /\ th[t].ev[i] = "Started" => i = 1

\* C7's case: a rescan has completed while a rescan of another row has
\* started and not ended.
StartedBeforeTerminalWitness ==
    \E t, u \in Threads :
        /\ th[t].kind = "rescan" /\ th[u].kind = "rescan"
        /\ th[t].row # th[u].row
        /\ th[t].ev = <<"Started", "Completed">>
        /\ th[u].ev = <<"Started">> /\ Active(u)

\* C8: in a repository the probe reports Clean when the status query succeeds
\* with empty output, Dirty when it succeeds with other output, Unknown when
\* it fails.
CleanDirtyUnknown ==
    (call.op = "probe" /\ call.done /\ call.arg.has_git) =>
        call.out.dirty =
            IF call.arg.status.none THEN "Unknown"
            ELSE IF strip(call.arg.status.s) = <<>> THEN "Clean"
            ELSE "Dirty"

RepoFields == {"branch", "remote", "dirty"}

\* C9: the probe result of a directory without ".git" has is_git false, and
\* no probe result with is_git false, in a worker's listing or in a row of
\* the table, has a branch, remote or dirty field.
NonRepoHasNoRepoFields ==
    /\ \A t \in Threads : \A k \in 1..Len(th[t].subfolders) :
           LET r == th[t].subfolders[k]
           IN  /\ ~GitWorld[r.path].has_git => ~r.is_git
               /\ ~r.is_git => DOMAIN r \cap RepoFields = {}
    /\ \A i \in 1..Len(rows) :
           ~rows[i].info.is_git => DOMAIN rows[i].info \cap RepoFields = {}

\* C9's case: a directory that is no repository is a row of the table.
NonRepoWitness == \E i \in 1..Len(rows) : ~rows[i].info.is_git

\* The positions of the directories in a listing.
DirIdx(e) == {i \in 1..Len(e) : e[i].kind # "file"}

\* C10: the lister returns one result per directory entry of the listing, in
\* the listing's order, that of the probe of that entry, and nothing else;
\* it raises exactly when the listing does.
ListerExact ==
    (call.op = "list" /\ call.done) =>
        IF ~call.arg.ok THEN call.out.exc
        ELSE /\ ~call.out.exc
             /\ LET e == call.arg.entries
                    out == call.out.val
                IN  /\ Len(out) = Cardinality(DirIdx(e))
                    /\ \A i \in DirIdx(e) :
                           LET j == Cardinality({h \in DirIdx(e) : h <= i})
                           IN  /\ out[j].path = join(P, e[i].name)
                               /\ out[j].is_git = (e[i].kind = "repo")

\* C10's case: a listing with a file between two directories was listed.
ListerExactWitness ==
    /\ call.op = "list" /\ call.done /\ call.arg.ok
    /\ Len(call.arg.entries) = 3
    /\ call.arg.entries[1].kind = "repo"
    /\ call.arg.entries[2].kind = "file"
    /\ call.arg.entries[3].kind = "dir"
    /\ Len(call.out.val) = 2

\* A "Scan Projects" whose root does not exist.
RejectedSeed ==
    \E text \in RootInputs :
        ~exists(FS(gen), strip(text)) /\ scan_projects(text)

\* C11: a "Scan Projects" on a root that does not exist shows "Path not
\* found" before it returns and starts no thread: the number of threads is
\* as before and no thread has started, listed or delivered an event in it.
SeedRejectedUpFront ==
    [][RejectedSeed =>
          /\ status' = <<"Path not found">>
          /\ shown' = RowIds(rows')
          /\ nth' = nth
          /\ \A t \in Threads :
                 /\ th'[t].kind = th[t].kind
                 /\ th'[t].pc = th[t].pc
                 /\ th'[t].subfolders = th[t].subfolders
                 /\ th'[t].ev = th[t].ev]_vars

\* C11's case: "Path not found" is shown and there is no thread at all.
SeedRejectedWitness ==
    /\ status = <<"Path not found">>
    /\ nth = 0
    /\ \A t \in Threads : th[t] = NoThread

\* A press of "Scan Projects" or of a row's arrow or refresh button.
Request ==
    \/ \E text \in RootInputs : scan_projects(text)
    \/ \E id \in shown : rescan_folder(id)

\* C12: a "Scan Projects" or rescan request returns without having listed a
\* directory or probed one: no thread's listing changes in it, no row is
\* added in it, and the thread it starts has not begun its task; a listing is
\* made only in a later step of a thread that was started before.
RequestsDoNotList ==
    [][/\ Request =>
             /\ \A t \in Threads :
                    /\ th'[t].subfolders = th[t].subfolders
                    /\ Listed(t)' <=> Listed(t)
             /\ rows' \in {rows, <<>>}
             /\ nth' # nth => th'[nth'].pc = "start"
       /\ \A t \in Threads :
              (Listed(t)' /\ ~Listed(t)) => th[t].pc = "list"]_vars

\* C12's case: a rescan was requested, the request has returned and the
\* thread it started has since listed the row's folder.
RequestsDoNotListWitness ==
    \E t \in Threads :
        /\ th[t].kind = "rescan"
        /\ th[t].pc = "index"
        /\ Len(th[t].subfolders) > 0

\* C13: when a rescan of a row completes, with no seed and no other rescan
\* of that row since it was requested, the rows it made stand directly after
\* the row, one after the other, in listing order, whatever rescans of
\* other rows ran beside it.
ExpandSplicesAfterParent ==
    [][\A t \in Threads :
          ( /\ th[t].kind = "rescan"
            /\ th[t].pc = "finish" /\ th'[t].pc = "done"
            /\ ~th[t].superseded
            /\ \A u \in Threads \ {t} : th[u].row # th[t].row )
          => \E i \in 1..Len(rows') :
                 /\ rows'[i].id = th[t].row
                 /\ \A k \in 1..Len(th[t].subfolders) :
                        /\ i + k <= Len(rows')
                        /\ rows'[i + k].id = <<t, k>>]_vars

\* C14: a row made by a seed has level 0 and a row made by a rescan has the
\* level of the rescanned row plus one, also when the rescanned row was
\* itself made by a rescan.
ChildDepth ==
    \A i \in 1..Len(rows) :
        LET t == rows[i].id[1]
        IN  /\ th[t].kind = "seed" => rows[i].level = 0
            /\ th[t].kind = "rescan" =>
                   \A j \in 1..Len(rows) :
                       rows[j].id = th[t].row =>
                           rows[i].level = rows[j].level + 1

\* C15: the rows of the table are changed only in the handlers: no step in
\* which a started thread moves on in its task changes the rows.
TreeMutationSerialized ==
    [][rows' # rows =>
          \A t \in Threads :
              Active(t) => /\ th'[t].pc = th[t].pc
                           /\ th'[t].k = th[t].k]_vars

\* The field reported for a query that succeeded with this output.
Reported(raw) == IF strip(raw.s) = <<>> THEN Dash ELSE strip(raw.s)

\* C16: whichever of the four git queries fail in a repository, the probe
\* returns a result with is_git true in which the branch and the remote of a
\* failed query are the missing-value sentinel, the dirty of a failed status
\* query is Unknown, and the field of every query that succeeded is what it
\* is when no query fails.
PartialDegradation ==
    (call.op = "probe" /\ call.done /\ call.arg.has_git) =>
        /\ call.out.is_git
        /\ call.out.path = P
        /\ call.out.branch = IF call.arg.branch.none THEN Dash
                             ELSE Reported(call.arg.branch)
        /\ call.out.remote = IF call.arg.remote.none THEN Dash
                             ELSE Reported(call.arg.remote)
        /\ call.out.dirty = IF call.arg.status.none THEN "Unknown"
                            ELSE IF strip(call.arg.status.s) = <<>>
                                 THEN "Clean" ELSE "Dirty"

\* The listing of the rescan t raised.
ListingFailed(t) == th[t].kind = "rescan" /\ th[t].exc = "OSError"

\* C17: the step in which the listing of a rescan raises changes neither the
\* rows nor any other thread, and the failed rescan has no row in the table;
\* after it, a rescan of another row that completes without a seed since its
\* request has its rows in the table, and the failed row, as long as it is
\* displayed, can be rescanned again, the new rescan starting at the
\* beginning of its task with nothing listed.
FailureIsolation ==
    [][/\ \A t \in Threads :
              /\ (ListingFailed(t)' /\ ~ListingFailed(t)) =>
                     /\ rows' = rows
                     /\ \A u \in Threads \ {t} : th'[u] = th[u]
              /\ ListingFailed(t) =>
                     /\ \A i \in 1..Len(rows) : rows[i].id[1] # t
                     /\ (th[t].row \in shown /\ MayStart) =>
                            ENABLED rescan_folder(th[t].row)
                     /\ rescan_folder(th[t].row) =>
                            /\ th'[nth'].pc = "start"
                            /\ th'[nth'].subfolders = <<>>
                            /\ rows' = rows
       /\ (\E t \in Threads : ListingFailed(t)) =>
              \A u \in Threads :
                  ( /\ th[u].kind = "rescan"
                    /\ th[u].pc = "finish" /\ th'[u].pc = "done"
                    /\ ~th[u].superseded )
                  => \A k \in 1..Len(th[u].subfolders) :
                         <<u, k>> \in RowIds(rows')]_vars

\* C17's case: the listing of a rescan has raised while a rescan of another
\* row is in flight, which has inserted its row and not completed yet, and
\* the failed row is still displayed.
FailureIsolationWitness ==
    \E t, u \in Threads :
        /\ ListingFailed(t)
        /\ th[u].kind = "rescan" /\ th[u].row # th[t].row
        /\ th[u].pc = "finish"
        /\ <<u, 1>> \in RowIds(rows)
        /\ th[t].row \in shown

\* The thread has begun its task and has not ended.
Running(t) == Active(t) /\ th[t].pc # "start"

\* C18: whenever a thread has begun its task and has not ended, the progress
\* bar is visible.
BusyCoversInFlight == (\E t \in Threads : Running(t)) => progress

\* C19: once every thread that was started has ended, by completing or by
\* an exception, the progress bar is hidden.
BusyReleasedAtQuiescence ==
    (nth > 0 /\ \A t \in Threads : ~Active(t)) => ~progress

====
